---- MODULE Spec2Model ----
(***************************************************************************)
(* Model of the generation engine of c3nft.py: _collect_traits,            *)
(* _merge_mapping_sets, _is_excluded_by_pairs, _weighted_choice, the       *)
(* per-edition loop of run_generation and GenerationWorker.run.            *)
(*                                                                         *)
(* Strings are sequences of tokens: a token is a piece of text without     *)
(* separator characters, and ":" and "|" are tokens of their own, so that  *)
(* "Layer:Trait" keys, str.split(":", 1) and the DNA join are computed on  *)
(* the text and not on pairs.                                              *)
(***************************************************************************)
EXTENDS Integers, Sequences, FiniteSets, TLC

VARIABLES
    fs,                 \* the layers directory: [exists, dirs, corrupt]
    config,             \* [layer_order, excluded_layers, mapping_sets]
    edition_size,       \* requested number of editions
    pc,                 \* position of run_generation / GenerationWorker.run
    rules,              \* merged rules (run_generation line 1032)
    all_traits,         \* layer -> sorted trait names (line 1039)
    final_layer_order,  \* line 1046
    generated_dna,      \* line 1048
    stats,              \* line 1049
    edition_number,     \* loop variable, line 1051
    li,                 \* index of the layer being selected (loop of line 1061)
    selected,           \* layer -> trait (line 1056)
    selected_keys,      \* line 1057
    forced_selection,   \* line 1058
    dna,                \* line 1145
    images,             \* edition numbers with a file in images/
    metadata,           \* edition number -> written metadata file
    callbacks,          \* the log_callback and progress_callback of the caller
    emitted,            \* calls of the callbacks and of done_signal, in order
    counted,            \* edition number -> the counters incremented for it
    accepted_dna,       \* edition number -> DNA, for the editions counted as success
    failure,            \* the step whose exception the edition's try block caught
    call                \* a call of a pure function: its arguments and its result

vars == <<fs, config, edition_size, pc, rules, all_traits, final_layer_order,
          generated_dna, stats, edition_number, li, selected, selected_keys,
          forced_selection, dna, images, metadata, callbacks, emitted, counted,
          accepted_dna, failure, call>>

----------------------------------------------------------------------------
(* Bounds *)

MaxEditions == 2

\* the longest option list passed to _weighted_choice on its own
MaxOpts == 3

\* the longest config["mapping_sets"] passed to _merge_mapping_sets on its own
MaxSets == 3

----------------------------------------------------------------------------
(* Text *)

None == <<"<None>">>          \* Python's None: no string is equal to it
NoneSentinel == <<"__none__">>

Key(layer, trait) == layer \o <<":">> \o trait

HasColon(s) == \E i \in 1..Len(s) : s[i] = ":"

FirstColon(s) == CHOOSE i \in 1..Len(s) : s[i] = ":" /\ \A j \in 1..(i - 1) : s[j] # ":"

\* s.split(":", 1) when s holds a colon: the text before and after the first one
SplitHead(s) == SubSeq(s, 1, FirstColon(s) - 1)

SplitTail(s) == SubSeq(s, FirstColon(s) + 1, Len(s))

RECURSIVE JoinBar(_)
JoinBar(parts) ==
    IF parts = <<>> THEN <<>>
    ELSE IF Len(parts) = 1 THEN parts[1]
    ELSE parts[1] \o <<"|">> \o JoinBar(Tail(parts))

\* Python dicts
EmptyDict == [x \in {} |-> x]

Put(d, k, v) == [x \in (DOMAIN d) \cup {k} |-> IF x = k THEN v ELSE d[x]]

Get(d, k, default) == IF k \in DOMAIN d THEN d[k] ELSE default

Overlay(d, e) == [x \in (DOMAIN d) \cup (DOMAIN e) |-> IF x \in DOMAIN e THEN e[x] ELSE d[x]]

Range(s) == {s[i] : i \in DOMAIN s}

RECURSIVE SelectSeq2(_, _)
\* the subsequence of s made of the elements that are in S
SelectSeq2(s, S) ==
    IF s = <<>> THEN <<>>
    ELSE IF s[1] \in S THEN <<s[1]>> \o SelectSeq2(Tail(s), S)
    ELSE SelectSeq2(Tail(s), S)

----------------------------------------------------------------------------
(* Inputs *)

LayerA == <<"A">>
LayerB == <<"B">>
LayerC == <<"C">>
LayerD == <<"D">>
Red == <<"Red">>
Blue == <<"Blue">>
Green == <<"Green">>
Purple == <<"Purple">>

\* every name of the inputs, in the order of Python's sorted()
NameOrder == <<LayerA, LayerB, Blue, LayerC, LayerD, Green, Purple, Red, NoneSentinel>>

Sorted(S) == SelectSeq2(NameOrder, S)

\* layers_dir: missing, or one subdirectory per layer with its .png stems;
\* D holds no .png file, C holds a file __none__.png; corrupt names the files that
\* cannot be decoded
LayersDirs ==
    { [exists |-> FALSE, dirs |-> EmptyDict, corrupt |-> {}],
      [exists |-> TRUE,
       dirs |-> Put(Put(Put(Put(EmptyDict, LayerA, {Red, Green}), LayerB, {Blue, Green}),
                        LayerC, {Blue, NoneSentinel}), LayerD, {}),
       corrupt |-> {Key(LayerB, Green)}] }

MappingSet(r, lr, ip, ep) ==
    [rarities |-> r, layer_rarities |-> lr, include_pairs |-> ip, exclude_pairs |-> ep]

\* configs/saved_mappings.json
SavedMappings ==
    [n \in {"inc", "inc2", "bad", "exc", "rare", "half", "chain"} |->
        CASE n = "inc" ->
               MappingSet(EmptyDict, EmptyDict,
                          << <<Key(LayerA, Red), Key(LayerB, Blue)>> >>, <<>>)
          [] n = "inc2" ->
               MappingSet(EmptyDict, EmptyDict,
                          << <<Key(LayerA, Red), Key(LayerB, Green)>> >>, <<>>)
          [] n = "bad" ->
               MappingSet(EmptyDict, EmptyDict,
                          << <<Key(LayerA, Green), Key(LayerB, Purple)>>,
                             <<Key(LayerA, Green), LayerC>> >>, <<>>)
          [] n = "exc" ->
               MappingSet(EmptyDict, EmptyDict, <<>>,
                          << <<Key(LayerA, Red), Key(LayerB, Blue)>> >>)
          [] n = "rare" ->
               MappingSet(Put(EmptyDict, Key(LayerA, Green), 0),
                          Put(EmptyDict, LayerB, 0), <<>>, <<>>)
          [] n = "half" ->
               MappingSet(Put(Put(EmptyDict, Key(LayerA, Green), 50), Key(LayerB, Blue), -5),
                          Put(Put(EmptyDict, LayerB, 50), LayerA, 100), <<>>, <<>>)
          [] n = "chain" ->
               MappingSet(EmptyDict, EmptyDict,
                          << <<Key(LayerB, Blue), Key(LayerC, Blue)>>,
                             <<Key(LayerA, Red), Key(LayerC, NoneSentinel)>> >>, <<>>)]

\* config["mapping_sets"]; "ghost" is not in saved_mappings.json
MappingSetLists ==
    { <<>>, <<"inc">>, <<"exc">>, <<"rare">>, <<"bad">>, <<"half">>,
      <<"inc", "exc">>, <<"inc", "inc2">>, <<"inc", "rare">>,
      <<"inc", "half">>, <<"rare", "half">>, <<"ghost", "inc">> }

\* config["layer_order"] and config["excluded_layers"]
LayerOrders ==
    { [layer_order |-> <<>>, excluded_layers |-> {LayerC}],
      [layer_order |-> <<LayerB, LayerA, LayerC>>, excluded_layers |-> {}],
      [layer_order |-> <<LayerB, LayerA, LayerB>>, excluded_layers |-> {}],
      [layer_order |-> <<LayerA, LayerD, LayerB, LayerC>>, excluded_layers |-> {LayerB}] }

\* the mapping-set lists each layer order is run with: all of MappingSetLists with the
\* default order, and with the other orders those whose rules bear on the layers of
\* the order
MappingSetListsFor(layer_order) ==
    CASE layer_order = <<>> -> MappingSetLists
      [] layer_order = <<LayerB, LayerA, LayerC>> -> { <<"inc", "rare">>, <<"chain">> }
      [] layer_order = <<LayerB, LayerA, LayerB>> -> { <<"inc", "rare">>, <<"inc", "half">> }
      [] OTHER -> { <<>>, <<"inc">> }

Configs ==
    UNION { { [layer_order |-> o.layer_order, excluded_layers |-> o.excluded_layers,
               mapping_sets |-> m] : m \in MappingSetListsFor(o.layer_order) } :
            o \in LayerOrders }

\* values of random.random(), in hundredths
PresenceDraws == {0, 1, 50, 51, 99}

----------------------------------------------------------------------------
(* _collect_traits *)

CollectTraits(layers_dir) ==
    IF ~layers_dir.exists THEN EmptyDict
    ELSE [layer \in {l \in DOMAIN layers_dir.dirs : layers_dir.dirs[l] # {}} |->
            Sorted(layers_dir.dirs[layer])]

----------------------------------------------------------------------------
(* _merge_mapping_sets *)

NoRules ==
    [trait_rarities |-> EmptyDict, layer_rarities |-> EmptyDict,
     include_pairs |-> <<>>, exclude_pairs |-> <<>>]

\* a merge where the rarities already in the accumulator are kept
MergeOneMut(acc, m) ==
    [trait_rarities |-> Overlay(m.rarities, acc.trait_rarities),
     layer_rarities |-> Overlay(m.layer_rarities, acc.layer_rarities),
     include_pairs |-> acc.include_pairs \o m.include_pairs,
     exclude_pairs |-> acc.exclude_pairs \o m.exclude_pairs]

\* one iteration of the loop of line 956 for a stored mapping set m
MergeOne(acc, m) ==
    [trait_rarities |-> Overlay(acc.trait_rarities, m.rarities),
     layer_rarities |-> Overlay(acc.layer_rarities, m.layer_rarities),
     include_pairs |-> acc.include_pairs \o m.include_pairs,
     exclude_pairs |-> acc.exclude_pairs \o m.exclude_pairs]

RECURSIVE MergeFrom(_, _, _)
MergeFrom(acc, names, saved) ==
    IF names = <<>> THEN acc
    ELSE IF names[1] \notin DOMAIN saved THEN MergeFrom(acc, Tail(names), saved)
    ELSE MergeFrom(MergeOne(acc, saved[names[1]]), Tail(names), saved)

MergeMappingSets(cfg, saved) == MergeFrom(NoRules, cfg.mapping_sets, saved)

LogMsg(msg, k) == [type |-> "log", msg |-> msg, k |-> k, n |-> 0]

ProgressMsg(k, n, outcome) == [type |-> "progress", msg |-> outcome, k |-> k, n |-> n]

\* done_signal.emit(stats)
DoneMsg(st) == [type |-> "done", msg |-> "", k |-> 0, n |-> 0, stats |-> st]

\* the warnings of line 959, in list order
RECURSIVE MergeWarnings(_, _)
MergeWarnings(names, saved) ==
    IF names = <<>> THEN <<>>
    ELSE IF names[1] \notin DOMAIN saved
         THEN <<LogMsg("mapping set not found", 0)>> \o MergeWarnings(Tail(names), saved)
         ELSE MergeWarnings(Tail(names), saved)

----------------------------------------------------------------------------
(* _is_excluded_by_pairs *)

IsExcludedByPairs(candidate_key, keys, exclude_pairs) ==
    \E i \in DOMAIN keys : \E j \in DOMAIN exclude_pairs :
        \/ candidate_key = exclude_pairs[j][1] /\ keys[i] = exclude_pairs[j][2]
        \/ candidate_key = exclude_pairs[j][2] /\ keys[i] = exclude_pairs[j][1]

----------------------------------------------------------------------------
(* _weighted_choice *)

RECURSIVE SumPositive(_)
SumPositive(weights) ==
    IF weights = <<>> THEN 0
    ELSE (IF weights[1] > 0 THEN weights[1] ELSE 0) + SumPositive(Tail(weights))

RECURSIVE WalkMut(_, _, _, _, _)
\* a walk that does not pass over the options of weight <= 0
WalkMut(options, weights, i, upto, r) ==
    IF i > Len(options) THEN options[Len(options)]
    ELSE IF upto + weights[i] >= r THEN options[i]
    ELSE WalkMut(options, weights, i + 1, upto + weights[i], r)

RECURSIVE Walk(_, _, _, _, _)
\* the loop of lines 898-904, from position i with upto accumulated, for the draw r
Walk(options, weights, i, upto, r) ==
    IF i > Len(options) THEN options[Len(options)]
    ELSE IF weights[i] <= 0 THEN Walk(options, weights, i + 1, upto, r)
    ELSE IF upto + weights[i] >= r THEN options[i]
    ELSE Walk(options, weights, i + 1, upto + weights[i], r)

\* a choice that gives up when no weight is positive
WeightedChoiceAtMut(options, weights, r, u) ==
    IF SumPositive(weights) <= 0 THEN None
    ELSE Walk(options, weights, 1, 0, r)

\* _weighted_choice for the draws it makes: r = random.uniform(0, total), and u the
\* position random.choice(options) picks.  r is a real of [0, total]; the weights are
\* integers, so a draw in (n, n+1] behaves as n+1
WeightedChoiceAt(options, weights, r, u) ==
    IF SumPositive(weights) <= 0
    THEN IF options = <<>> THEN None ELSE options[u]
    ELSE Walk(options, weights, 1, 0, r)

\* the draws _weighted_choice can make
UniformDraws(weights) == IF SumPositive(weights) <= 0 THEN {0} ELSE 0..SumPositive(weights)

ChoiceDraws(options, weights) ==
    IF SumPositive(weights) <= 0 /\ options # <<>> THEN DOMAIN options ELSE {0}

\* the results _weighted_choice can return
WeightedChoice(options, weights) ==
    {WeightedChoiceAt(options, weights, r, u) :
        r \in UniformDraws(weights), u \in ChoiceDraws(options, weights)}

----------------------------------------------------------------------------
(* run_generation: the selection of one layer, lines 1061-1138 *)

\* a layer without a rarity is taken as never present
LayerRarityMut(layer_rarities, layer) == Get(layer_rarities, layer, 0)

\* line 1067
LayerRarity(layer_rarities, layer) == Get(layer_rarities, layer, 100)

\* line 1069, for the draw of random.random() in hundredths
SkippedByRarity(must_include, draw, layer_p) == ~must_include /\ draw > layer_p

\* lines 1079-1089: the trait an include pair requires for this layer, or None
RequiredTrait(layer, keys, include_pairs) ==
    LET Match(p) == /\ HasColon(p[1]) /\ HasColon(p[2])
                    /\ Key(SplitHead(p[1]), SplitTail(p[1])) \in Range(keys)
                    /\ SplitHead(p[2]) = layer
        hits == {i \in DOMAIN include_pairs : Match(include_pairs[i])}
    IN  IF hits = {} THEN None
        ELSE SplitTail(include_pairs[CHOOSE i \in hits : \A j \in hits : i <= j][2])

\* lines 1104-1114: the options no exclude pair rules out, and their weights
ViableOpts(layer, options, keys, exclude_pairs) ==
    SelectSeq(options, LAMBDA t : ~IsExcludedByPairs(Key(layer, t), keys, exclude_pairs))

TraitWeight(trait_rarities, key) ==
    IF Get(trait_rarities, key, 100) < 0 THEN 0 ELSE Get(trait_rarities, key, 100)

ViableWts(layer, viable, trait_rarities) ==
    [i \in DOMAIN viable |-> TraitWeight(trait_rarities, Key(layer, viable[i]))]

\* lines 1073-1076: the forced trait is used as it is
ForcedChoice(layer, forced, options) == Get(forced, layer, None)

Skip == [trait |-> None, warn |-> FALSE]

\* what lines 1062-1122 can decide for the layer: a trait, or None (the layer is
\* skipped), with the warning of line 1095 or without
LayerChoices(layer, traits, rls, sel, keys, forced) ==
    LET options == Get(traits, layer, <<>>)
        layer_p == LayerRarity(rls.layer_rarities, layer)
        must_include == layer \in DOMAIN forced
        chosen == ForcedChoice(layer, forced, options)
        required == RequiredTrait(layer, keys, rls.include_pairs)
        viable == ViableOpts(layer, options, keys, rls.exclude_pairs)
        present ==
            IF chosen # None THEN {[trait |-> chosen, warn |-> FALSE]}
            ELSE IF required # None
                 THEN IF required \in Range(options)
                      THEN {[trait |-> required, warn |-> FALSE]}
                      ELSE {[trait |-> None, warn |-> TRUE]}
            ELSE IF viable = <<>> THEN {Skip}
            ELSE {[trait |-> t, warn |-> FALSE] :
                    t \in WeightedChoice(viable, ViableWts(layer, viable, rls.trait_rarities))}
    IN  IF options = <<>> THEN {Skip}
        ELSE IF must_include THEN present
        ELSE UNION {IF SkippedByRarity(must_include, draw, layer_p) THEN {Skip} ELSE present :
                      draw \in PresenceDraws}

RECURSIVE ForceTargetsMut(_, _, _, _)
\* the test of line 1137 inverted: only a target layer already selected is forced
ForceTargetsMut(key, include_pairs, sel, forced) ==
    IF include_pairs = <<>> THEN forced
    ELSE LET a == include_pairs[1][1]
             b == include_pairs[1][2]
         IN  IF key = a /\ HasColon(b) /\ SplitHead(b) \in DOMAIN sel
             THEN ForceTargetsMut(key, Tail(include_pairs), sel,
                                  Put(forced, SplitHead(b), SplitTail(b)))
             ELSE ForceTargetsMut(key, Tail(include_pairs), sel, forced)

RECURSIVE ForceTargetsFirst(_, _, _, _)
\* a forced map that keeps the first value written for a layer
ForceTargetsFirst(key, include_pairs, sel, forced) ==
    IF include_pairs = <<>> THEN forced
    ELSE LET a == include_pairs[1][1]
             b == include_pairs[1][2]
         IN  IF /\ key = a /\ HasColon(b) /\ SplitHead(b) \notin DOMAIN sel
                /\ SplitHead(b) \notin DOMAIN forced
             THEN ForceTargetsFirst(key, Tail(include_pairs), sel,
                                    Put(forced, SplitHead(b), SplitTail(b)))
             ELSE ForceTargetsFirst(key, Tail(include_pairs), sel, forced)

RECURSIVE ForceTargets(_, _, _, _)
\* lines 1130-1138: the forced map after the key has been registered in sel
ForceTargets(key, include_pairs, sel, forced) ==
    IF include_pairs = <<>> THEN forced
    ELSE LET a == include_pairs[1][1]
             b == include_pairs[1][2]
         IN  IF key = a /\ HasColon(b) /\ SplitHead(b) \notin DOMAIN sel
             THEN ForceTargets(key, Tail(include_pairs), sel, Put(forced, SplitHead(b), SplitTail(b)))
             ELSE ForceTargets(key, Tail(include_pairs), sel, forced)

\* the forced traits are written into the selection at once, over what is selected
AfterSelectionMut(layer, trait, include_pairs, sel, forced) ==
    LET targets == ForceTargets(Key(layer, trait), include_pairs, EmptyDict, EmptyDict)
    IN  [selected |-> Put(Overlay(sel, targets), layer, trait),
         forced |-> ForceTargets(Key(layer, trait), include_pairs,
                                 Put(sel, layer, trait), forced)]

\* lines 1124-1138: the trait is registered for its layer; the include pairs of its key
\* change the forced map only
AfterSelection(layer, trait, include_pairs, sel, forced) ==
    [selected |-> Put(sel, layer, trait),
     forced |-> ForceTargets(Key(layer, trait), include_pairs,
                             Put(sel, layer, trait), forced)]

----------------------------------------------------------------------------
(* run_generation: DNA, compositing, metadata *)

\* lines 1141-1145
Dna(order, sel) ==
    JoinBar([i \in DOMAIN order |-> Key(order[i], Get(sel, order[i], NoneSentinel))])

\* the DNA is looked up in a set that is never filled
IsDuplicateMut(d, seen) == d \in {}

\* line 1147
IsDuplicate(d, seen) == d \in seen

\* line 1157 and line 1187: "not trait or trait == '__none__'"
Truthy(trait) == trait # None /\ trait # <<>> /\ trait # NoneSentinel

\* an image that cannot be decoded ends the compositing with an exception
LoadImageMut(layers_dir, key) ==
    IF key \in layers_dir.corrupt THEN "raised" ELSE "loaded"

\* lines 1169-1174: Image.open(...).convert("RGBA") under its own try; an image that
\* cannot be opened or decoded is logged and left out of the composite
LoadImage(layers_dir, key) ==
    IF key \in layers_dir.corrupt THEN "left out" ELSE "loaded"

\* some selected trait of the order has an image file whose loading raises
LoadRaises(order, sel, layers_dir) ==
    \E i \in DOMAIN order :
        LET layer == order[i]
            trait == Get(sel, layer, None)
        IN  /\ Truthy(trait)
            /\ trait \in Get(layers_dir.dirs, layer, {})
            /\ LoadImage(layers_dir, Key(layer, trait)) = "raised"

RECURSIVE CompositeWarnings(_, _, _)
\* lines 1155-1174: the warnings of the layers whose image is missing or unreadable
CompositeWarnings(order, sel, layers_dir) ==
    IF order = <<>> THEN <<>>
    ELSE LET layer == order[1]
             trait == Get(sel, layer, None)
             rest == CompositeWarnings(Tail(order), sel, layers_dir)
         IN  IF ~Truthy(trait) THEN rest
             ELSE IF trait \notin Get(layers_dir.dirs, layer, {})
                  THEN <<LogMsg("missing image", 0)>> \o rest
             ELSE IF LoadImage(layers_dir, Key(layer, trait)) = "left out"
                  THEN <<LogMsg("error loading", 0)>> \o rest
             ELSE rest

RECURSIVE Attributes(_, _)
\* lines 1184-1188
Attributes(order, sel) ==
    IF order = <<>> THEN <<>>
    ELSE IF Truthy(Get(sel, order[1], None))
         THEN <<[trait_type |-> order[1], value |-> sel[order[1]]]>> \o Attributes(Tail(order), sel)
         ELSE Attributes(Tail(order), sel)

\* _safe_log: the messages reach the callback unless there is none or it raises
SafeLog(log, msgs) == IF callbacks.log = "ok" THEN log \o msgs ELSE log

Bump(st, counter) == [st EXCEPT ![counter] = @ + 1]

Count(c, k, counter) == [c EXCEPT ![k] = @ \cup {counter}]

----------------------------------------------------------------------------
(* The run *)

\* log_callback: none, one that returns, one that raises; progress_callback: none or
\* one that may raise at any call
\* the excluded layers are kept in the order
FinalLayerOrderMut(layer_order, traits, excluded_layers) ==
    SelectSeq(IF layer_order = <<>> THEN Sorted(DOMAIN traits) ELSE layer_order,
              LAMBDA L : L \in DOMAIN traits)

\* lines 1041-1046
FinalLayerOrder(layer_order, traits, excluded_layers) ==
    SelectSeq(IF layer_order = <<>> THEN Sorted(DOMAIN traits) ELSE layer_order,
              LAMBDA L : L \in DOMAIN traits /\ L \notin excluded_layers)

\* no pure function is being called on its own
NoCall == [fn |-> "none"]

\* lines 64-71: GenerationWorker.run passes two lambdas that emit log_signal and
\* progress_signal; emitting a signal returns
WorkerCallbacks == [log |-> "ok", progress |-> TRUE, signals |-> TRUE]

\* the configs a worker is started with: the default order, with no mapping set, with
\* an inclusion rule, and with the name of a set that is not saved
WorkerConfigs ==
    { c \in Configs : /\ c.layer_order = <<>>
                      /\ c.mapping_sets \in { <<>>, <<"inc">>, <<"ghost", "inc">> } }

Callbacks ==
    { [log |-> "ok", progress |-> TRUE, signals |-> FALSE],
      [log |-> "raises", progress |-> TRUE, signals |-> FALSE],
      [log |-> "none", progress |-> FALSE, signals |-> FALSE],
      WorkerCallbacks }

Init ==
    /\ fs \in LayersDirs
    /\ config \in Configs
    /\ edition_size \in 0..MaxEditions
    /\ callbacks \in Callbacks
    /\ callbacks.signals =>
         /\ edition_size >= 1                     \* line 808: the quantity is 1..999999
         /\ config \in WorkerConfigs
    /\ pc = "start"
    /\ rules = NoRules
    /\ all_traits = EmptyDict
    /\ final_layer_order = <<>>
    /\ generated_dna = {}
    /\ stats = [success |-> 0, duplicates |-> 0, errors |-> 0]
    /\ edition_number = 0
    /\ li = 0
    /\ selected = EmptyDict
    /\ selected_keys = <<>>
    /\ forced_selection = EmptyDict
    /\ dna = <<>>
    /\ images = EmptyDict
    /\ metadata = EmptyDict
    /\ emitted = <<>>
    /\ counted = [k \in 1..edition_size |-> {}]
    /\ accepted_dna = EmptyDict
    /\ failure = "none"
    /\ call = NoCall

\* lines 1017-1049
Setup ==
    /\ pc = "start"
    /\ rules' = MergeMappingSets(config, SavedMappings)
    /\ all_traits' = CollectTraits(fs)
    /\ final_layer_order' =
         FinalLayerOrder(config.layer_order, all_traits', config.excluded_layers)
    /\ emitted' = SafeLog(emitted, MergeWarnings(config.mapping_sets, SavedMappings))
    /\ generated_dna' = {}
    /\ stats' = [success |-> 0, duplicates |-> 0, errors |-> 0]
    /\ pc' = "loop"
    /\ UNCHANGED <<fs, config, edition_size, edition_number, li, selected, selected_keys,
                   forced_selection, dna, images, metadata, callbacks, counted,
                   accepted_dna,
                   failure, call>>

\* line 1051 and lines 1053-1058: the next edition starts
StartEdition ==
    /\ pc = "loop"
    /\ edition_number < edition_size
    /\ edition_number' = edition_number + 1
    /\ selected' = EmptyDict
    /\ selected_keys' = <<>>
    /\ forced_selection' = EmptyDict
    /\ li' = 1
    /\ failure' = "none"
    /\ pc' = IF final_layer_order = <<>> THEN "dna" ELSE "select"
    /\ UNCHANGED <<fs, config, edition_size, rules, all_traits, final_layer_order,
                   generated_dna, stats, dna, images, metadata, callbacks, emitted, counted,
                   accepted_dna,
                   call>>

\* lines 1061-1138: one iteration of the loop over final_layer_order
SelectLayer ==
    /\ pc = "select"
    /\ LET layer == final_layer_order[li]
       IN  \E c \in LayerChoices(layer, all_traits, rules, selected, selected_keys,
                                 forced_selection) :
             /\ IF c.trait = None
                THEN /\ UNCHANGED <<selected, selected_keys, forced_selection>>
                     /\ emitted' = SafeLog(emitted,
                                           IF c.warn THEN <<LogMsg("inclusion not found", 0)>>
                                           ELSE <<>>)
                ELSE LET after == AfterSelection(layer, c.trait, rules.include_pairs,
                                                 selected, forced_selection)
                     IN  /\ selected' = after.selected
                         /\ selected_keys' = Append(selected_keys, Key(layer, c.trait))
                         /\ forced_selection' = after.forced
                         /\ UNCHANGED emitted
    /\ li' = li + 1
    /\ pc' = IF li = Len(final_layer_order) THEN "dna" ELSE "select"
    /\ UNCHANGED <<fs, config, edition_size, rules, all_traits, final_layer_order,
                   generated_dna, stats, edition_number, dna, images, metadata, callbacks,
                   counted,
                   accepted_dna,
                   failure, call>>

\* lines 1141-1152: the DNA is already in the set
Duplicate ==
    /\ pc = "dna"
    /\ dna' = Dna(final_layer_order, selected)
    /\ IsDuplicate(dna', generated_dna)
    /\ stats' = Bump(stats, "duplicates")
    /\ counted' = Count(counted, edition_number, "duplicates")
    /\ \E raises \in IF callbacks.signals THEN {FALSE} ELSE BOOLEAN :
         LET logged == SafeLog(emitted, <<LogMsg("duplicate", edition_number)>>)
         IN  IF ~callbacks.progress
             THEN /\ ~raises
                  /\ emitted' = logged
                  /\ pc' = "loop"
                  /\ UNCHANGED failure
             ELSE /\ emitted' = Append(logged,
                        ProgressMsg(edition_number, edition_size,
                                    IF raises THEN "raised" ELSE "ok"))
                  /\ pc' = IF raises THEN "except" ELSE "loop"
                  /\ failure' = IF raises THEN "callback" ELSE failure
    /\ UNCHANGED <<fs, config, edition_size, rules, all_traits, final_layer_order,
                   generated_dna, edition_number, li, selected, selected_keys,
                   forced_selection, images, metadata, callbacks,
                   accepted_dna,
                   call>>

\* lines 1141-1147 and 1155-1177: a new DNA, the layers are composited; an image that
\* cannot be loaded is logged and left out, any other failure (listing the layer
\* directory, resizing, compositing) is an exception
Composite ==
    /\ pc = "dna"
    /\ dna' = Dna(final_layer_order, selected)
    /\ ~IsDuplicate(dna', generated_dna)
    /\ IF LoadRaises(final_layer_order, selected, fs)
       THEN /\ pc' = "except"
            /\ failure' = "load"
            /\ UNCHANGED emitted
       ELSE \E raises \in BOOLEAN :
              /\ raises => \E L \in DOMAIN selected : Truthy(selected[L])
              /\ emitted' = SafeLog(emitted,
                                    CompositeWarnings(final_layer_order, selected, fs))
              /\ pc' = IF raises THEN "except" ELSE "save"
              /\ failure' = IF raises THEN "composite" ELSE failure
    /\ UNCHANGED <<fs, config, edition_size, rules, all_traits, final_layer_order,
                   generated_dna, stats, edition_number, li, selected, selected_keys,
                   forced_selection, images, metadata, callbacks, counted,
                   accepted_dna,
                   call>>

\* lines 1180-1182: the DNA is recorded, then the image is saved
SaveImage ==
    /\ pc = "save"
    /\ generated_dna' = generated_dna \cup {dna}
    /\ \E outcome \in {"ok", "partial", "failed"} :
         /\ images' = IF outcome = "failed" THEN images
                      ELSE Put(images, edition_number, outcome)
         /\ pc' = IF outcome = "ok" THEN "meta" ELSE "except"
         /\ failure' = IF outcome = "ok" THEN failure ELSE "save"
    /\ UNCHANGED <<fs, config, edition_size, rules, all_traits, final_layer_order,
                   stats, edition_number, li, selected, selected_keys, forced_selection,
                   dna, metadata, callbacks, emitted, counted,
                   accepted_dna,
                   call>>

\* lines 1184-1203: the metadata file is written, then the edition is counted
WriteMetadata ==
    /\ pc = "meta"
    /\ \E outcome \in {"ok", "partial", "failed"} :
         IF outcome = "ok"
         THEN /\ metadata' = Put(metadata, edition_number,
                                 [attributes |-> Attributes(final_layer_order, selected),
                                  complete |-> TRUE])
              /\ stats' = Bump(stats, "success")
              /\ counted' = Count(counted, edition_number, "success")
              /\ accepted_dna' = Put(accepted_dna, edition_number, dna)
              /\ emitted' = SafeLog(emitted, <<LogMsg("generated", edition_number)>>)
              /\ pc' = "progress"
              /\ UNCHANGED failure
         ELSE /\ metadata' = IF outcome = "failed" THEN metadata
                             ELSE Put(metadata, edition_number,
                                      [attributes |-> <<>>, complete |-> FALSE])
              /\ pc' = "except"
              /\ failure' = "metadata"
              /\ UNCHANGED <<stats, counted, emitted, accepted_dna>>
    /\ UNCHANGED <<fs, config, edition_size, rules, all_traits, final_layer_order,
                   generated_dna, edition_number, li, selected, selected_keys,
                   forced_selection, dna, images, callbacks,
                   call>>

\* lines 1205-1207
Except ==
    /\ pc = "except"
    /\ stats' = Bump(stats, "errors")
    /\ counted' = Count(counted, edition_number, "errors")
    /\ emitted' = SafeLog(emitted, <<LogMsg("error", edition_number)>>)
    /\ pc' = "progress"
    /\ UNCHANGED <<fs, config, edition_size, rules, all_traits, final_layer_order,
                   generated_dna, edition_number, li, selected, selected_keys,
                   forced_selection, dna, images, metadata, callbacks,
                   accepted_dna,
                   failure, call>>

\* lines 1209-1210: outside the try, an exception of the callback leaves run_generation
Progress ==
    /\ pc = "progress"
    /\ \E raises \in IF callbacks.signals THEN {FALSE} ELSE BOOLEAN :
         IF ~callbacks.progress
         THEN /\ ~raises
              /\ pc' = "loop"
              /\ UNCHANGED emitted
         ELSE /\ emitted' = Append(emitted,
                    ProgressMsg(edition_number, edition_size,
                                IF raises THEN "raised" ELSE "ok"))
              /\ pc' = IF raises THEN "raised" ELSE "loop"
    /\ UNCHANGED <<fs, config, edition_size, rules, all_traits, final_layer_order,
                   generated_dna, stats, edition_number, li, selected, selected_keys,
                   forced_selection, dna, images, metadata, callbacks, counted,
                   accepted_dna,
                   failure, call>>

\* the loop is left one edition early
ReturnMut ==
    /\ pc = "loop"
    /\ edition_number >= edition_size - 1
    /\ pc' = "returned"
    /\ UNCHANGED <<fs, config, edition_size, rules, all_traits, final_layer_order,
                   generated_dna, stats, edition_number, li, selected, selected_keys,
                   forced_selection, dna, images, metadata, callbacks, emitted, counted,
                   accepted_dna,
                   failure, call>>

\* line 1212
Return ==
    /\ pc = "loop"
    /\ edition_number >= edition_size
    /\ pc' = "returned"
    /\ UNCHANGED <<fs, config, edition_size, rules, all_traits, final_layer_order,
                   generated_dna, stats, edition_number, li, selected, selected_keys,
                   forced_selection, dna, images, metadata, callbacks, emitted, counted,
                   accepted_dna,
                   failure, call>>

\* GenerationWorker.run, line 71
Done ==
    /\ pc = "returned"
    /\ callbacks.signals
    /\ emitted' = Append(emitted, DoneMsg(stats))
    /\ pc' = "done"
    /\ UNCHANGED <<fs, config, edition_size, rules, all_traits, final_layer_order,
                   generated_dna, stats, edition_number, li, selected, selected_keys,
                   forced_selection, dna, images, metadata, callbacks, counted,
                   accepted_dna,
                   failure, call>>

Next ==
    \/ Setup
    \/ StartEdition
    \/ SelectLayer
    \/ Duplicate
    \/ Composite
    \/ SaveImage
    \/ WriteMetadata
    \/ Except
    \/ Progress
    \/ Return
    \/ Done

Spec == Init /\ [][Next]_vars

\* lines 868-871: the run of a GenerationWorker that has been started; its thread runs
\* GenerationWorker.run to the end, every step of which terminates
InitWorker == Init /\ callbacks = WorkerCallbacks

\* the steps of the run but the selection of a layer
WorkerSteps ==
    \/ Setup
    \/ StartEdition
    \/ Duplicate
    \/ Composite
    \/ SaveImage
    \/ WriteMetadata
    \/ Except
    \/ Progress
    \/ Return
    \/ Done

\* ENABLED SelectLayer written out: the loop over the layers is at a layer, for which
\* lines 1062-1122 always come to a decision
SelectLayerEnabled ==
    /\ pc = "select"
    /\ LayerChoices(final_layer_order[li], all_traits, rules, selected, selected_keys,
                    forced_selection) # {}

\* weak fairness of SelectLayer
SelectLayerFair == <>[]SelectLayerEnabled => []<><<SelectLayer>>_vars

SpecWorker == InitWorker /\ [][Next]_vars /\ WF_vars(WorkerSteps) /\ SelectLayerFair

----------------------------------------------------------------------------
(* _weighted_choice and _merge_mapping_sets called on their own *)

SeqsUpTo(S, n) == UNION {[1..k -> S] : k \in 0..n}

\* option lists and, position by position, their weights (the lists of lines 1102-1122
\* have the same length)
OptionNames == {Red, Green, Blue}

WeightValues == {-5, 0, 1, 5}

WeightedChoiceArgs ==
    { [options |-> o, weights |-> w] :
        o \in SeqsUpTo(OptionNames, MaxOpts), w \in SeqsUpTo(WeightValues, MaxOpts) }

\* config["mapping_sets"]: stored names and a name that is not stored, in any order
MappingSetNames == SeqsUpTo(DOMAIN SavedMappings \cup {"ghost"}, MaxSets)

\* trait names of a catalog: plain names, a file __none__.png, and file names that
\* hold the separators of the DNA
DnaTraitNames ==
    { Red, Blue, NoneSentinel,
      <<"Red", "|", "B", ":", "Blue">>, <<"Blue", "|", "B", ":", "Red">> }

\* the final_layer_order of the run whose editions are compared
DnaLayerOrder == <<LayerA, LayerB>>

\* the selections an edition can end with: some layers of the order, each with a trait
DnaSelections == UNION { [S -> DnaTraitNames] : S \in SUBSET Range(DnaLayerOrder) }

InitPure ==
    /\ \/ /\ \E a \in {x \in WeightedChoiceArgs : Len(x.options) = Len(x.weights)} :
                call = [fn |-> "weighted_choice", returned |-> FALSE,
                        options |-> a.options, weights |-> a.weights,
                        r |-> 0, u |-> 0, result |-> None]
            /\ config = [layer_order |-> <<>>, excluded_layers |-> {}, mapping_sets |-> <<>>]
            /\ callbacks = [log |-> "none", progress |-> FALSE, signals |-> FALSE]
       \/ /\ \E first \in DnaSelections, second \in DnaSelections :
                call = [fn |-> "dna", returned |-> FALSE, order |-> DnaLayerOrder,
                        first |-> first, second |-> second, result |-> <<>>]
            /\ config = [layer_order |-> <<>>, excluded_layers |-> {}, mapping_sets |-> <<>>]
            /\ callbacks = [log |-> "none", progress |-> FALSE, signals |-> FALSE]
       \/ /\ call = [fn |-> "merge_mapping_sets", returned |-> FALSE, result |-> NoRules]
            /\ \E names \in MappingSetNames :
                config = [layer_order |-> <<>>, excluded_layers |-> {}, mapping_sets |-> names]
            /\ callbacks \in Callbacks
    /\ fs = [exists |-> FALSE, dirs |-> EmptyDict, corrupt |-> {}]
    /\ edition_size = 0
    /\ pc = "pure"
    /\ rules = NoRules
    /\ all_traits = EmptyDict
    /\ final_layer_order = <<>>
    /\ generated_dna = {}
    /\ stats = [success |-> 0, duplicates |-> 0, errors |-> 0]
    /\ edition_number = 0
    /\ li = 0
    /\ selected = EmptyDict
    /\ selected_keys = <<>>
    /\ forced_selection = EmptyDict
    /\ dna = <<>>
    /\ images = EmptyDict
    /\ metadata = EmptyDict
    /\ emitted = <<>>
    /\ counted = EmptyDict
    /\ accepted_dna = EmptyDict
    /\ failure = "none"

\* lines 886-904
CallWeightedChoice ==
    /\ call.fn = "weighted_choice"
    /\ ~call.returned
    /\ \E r \in UniformDraws(call.weights), u \in ChoiceDraws(call.options, call.weights) :
         call' = [call EXCEPT !.returned = TRUE, !.r = r, !.u = u,
                              !.result = WeightedChoiceAt(call.options, call.weights, r, u)]
    /\ UNCHANGED <<fs, config, edition_size, pc, rules, all_traits, final_layer_order,
                   generated_dna, stats, edition_number, li, selected, selected_keys,
                   forced_selection, dna, images, metadata, callbacks, emitted, counted,
                   accepted_dna, failure>>

\* lines 928-989
CallMergeMappingSets ==
    /\ call.fn = "merge_mapping_sets"
    /\ ~call.returned
    /\ call' = [call EXCEPT !.returned = TRUE,
                            !.result = MergeMappingSets(config, SavedMappings)]
    /\ emitted' = SafeLog(emitted, MergeWarnings(config.mapping_sets, SavedMappings))
    /\ UNCHANGED <<fs, config, edition_size, pc, rules, all_traits, final_layer_order,
                   generated_dna, stats, edition_number, li, selected, selected_keys,
                   forced_selection, dna, images, metadata, callbacks, counted,
                   accepted_dna, failure>>

\* lines 1141-1145, for the selections of two editions of one run
CallDna ==
    /\ call.fn = "dna"
    /\ ~call.returned
    /\ call' = [call EXCEPT !.returned = TRUE,
                            !.result = <<Dna(call.order, call.first),
                                         Dna(call.order, call.second)>>]
    /\ UNCHANGED <<fs, config, edition_size, pc, rules, all_traits, final_layer_order,
                   generated_dna, stats, edition_number, li, selected, selected_keys,
                   forced_selection, dna, images, metadata, callbacks, emitted, counted,
                   accepted_dna, failure>>

NextPure ==
    \/ CallWeightedChoice
    \/ CallMergeMappingSets
    \/ CallDna

SpecPure == InitPure /\ [][NextPure]_vars

----------------------------------------------------------------------------
(* Vocabulary of the properties *)

\* the selection of the current edition is complete
SelectionDone == edition_number >= 1 /\ pc \notin {"start", "select"}

\* the current edition has just been counted as a success
JustAccepted == pc = "progress" /\ "success" \in counted[edition_number]

Selects(sel, key) == \E L \in DOMAIN sel : Key(L, sel[L]) = key

NoRepeat(order) == \A i, j \in DOMAIN order : order[i] = order[j] => i = j

ComesLater(order, first, second) ==
    \E i, j \in DOMAIN order : i < j /\ order[i] = first /\ order[j] = second

WellFormed(p) == HasColon(p[1]) /\ HasColon(p[2])

StatsTotal == stats.success + stats.duplicates + stats.errors

ProgressCalls == SelectSeq(emitted, LAMBDA e : e.type = "progress")

----------------------------------------------------------------------------
(* C1 *)

\* C1: when run_generation returns, success + duplicates + errors equals the requested
\* edition count, and no edition has incremented more than one of the three counters,
\* whatever the editions' outcomes and whatever the callbacks do.
C1_StatsSumToRequested ==
    /\ \A k \in DOMAIN counted : Cardinality(counted[k]) <= 1
    /\ pc \in {"returned", "done"} => StatsTotal = edition_size

----------------------------------------------------------------------------
(* C2 *)

\* C2: any two editions of one run that are counted as success have different DNA strings.
C2_AcceptedDnaDistinct ==
    \A j, k \in DOMAIN accepted_dna : j # k => accepted_dna[j] # accepted_dna[k]

\* two editions have been accepted in one run
C2_Witness ==
    /\ Cardinality(DOMAIN accepted_dna) >= 2
    /\ stats.success >= 2

----------------------------------------------------------------------------
(* C3 *)

\* C3: no accepted edition's selection contains both traits of an exclude pair of the
\* merged rules, whatever include pairs are present.
C3_ExcludePairNeverTogether ==
    JustAccepted =>
        \A i \in DOMAIN rules.exclude_pairs :
            ~(/\ Selects(selected, rules.exclude_pairs[i][1])
              /\ Selects(selected, rules.exclude_pairs[i][2]))

----------------------------------------------------------------------------
(* C4 *)

\* the case of C4 for the include pair p: its source trait is selected on a layer, its
\* target layer (the text of the target key before the first colon) comes later in
\* final_layer_order and its target trait is in the target layer's catalog
C4_Case(p) ==
    /\ WellFormed(p)
    /\ \E L \in DOMAIN selected :
         /\ Key(L, selected[L]) = p[1]
         /\ ComesLater(final_layer_order, L, SplitHead(p[2]))
    /\ SplitTail(p[2]) \in Range(Get(all_traits, SplitHead(p[2]), <<>>))

\* C4 as stated: for every include pair (LayerA:Red => LayerB:Blue) of the merged rules,
\* in every edition where LayerA:Red is selected, LayerB comes later than LayerA and Blue
\* is in LayerB's catalog, the selection of LayerB is Blue, whatever other include pairs,
\* exclude pairs and layer rarities are present.
C4_InclusionForcesTarget ==
    SelectionDone =>
        \A i \in DOMAIN rules.include_pairs :
            LET p == rules.include_pairs[i]
            IN  C4_Case(p) => Get(selected, SplitHead(p[2]), None) = SplitTail(p[2])

\* no include pair whose source trait is selected asks for another trait of p's target layer
C4_NoRival(p) ==
    \A j \in DOMAIN rules.include_pairs :
        LET q == rules.include_pairs[j]
        IN  (WellFormed(q) /\ Selects(selected, q[1]) /\ SplitHead(q[2]) = SplitHead(p[2]))
                => SplitTail(q[2]) = SplitTail(p[2])

\* C4 amended: the same, provided final_layer_order lists no layer twice and no include
\* pair whose source trait is selected in the edition targets LayerB with another trait.
C4_InclusionForcesTargetAmended ==
    (SelectionDone /\ NoRepeat(final_layer_order)) =>
        \A i \in DOMAIN rules.include_pairs :
            LET p == rules.include_pairs[i]
            IN  (C4_Case(p) /\ C4_NoRival(p))
                    => Get(selected, SplitHead(p[2]), None) = SplitTail(p[2])

\* an edition where LayerA:Red is selected and has forced LayerB:Blue against an exclude
\* pair naming the two and against a LayerB rarity of 0
C4_Witness ==
    /\ SelectionDone
    /\ NoRepeat(final_layer_order)
    /\ \E i \in DOMAIN rules.include_pairs :
         /\ C4_Case(rules.include_pairs[i])
         /\ C4_NoRival(rules.include_pairs[i])
         /\ rules.include_pairs[i] = <<Key(LayerA, Red), Key(LayerB, Blue)>>
    /\ Get(selected, LayerB, None) = Blue
    /\ \/ rules.exclude_pairs # <<>>
       \/ Get(rules.layer_rarities, LayerB, 100) = 0

----------------------------------------------------------------------------
(* C5 *)

\* C5: a layer whose merged rarity is 0 and that no inclusion forces in the edition is
\* absent from the edition's selection, for every value of the presence draw.
C5_RarityZeroAbsent ==
    \A i \in DOMAIN final_layer_order :
        LET L == final_layer_order[i]
        IN  (LayerRarity(rules.layer_rarities, L) = 0 /\ L \notin DOMAIN forced_selection)
                => L \notin DOMAIN selected

----------------------------------------------------------------------------
(* C6 *)

\* every merged layer rarity is 100 or unspecified, and there is no exclude pair
C6_Case ==
    /\ \A L \in DOMAIN rules.layer_rarities : rules.layer_rarities[L] = 100
    /\ rules.exclude_pairs = <<>>

----------------------------------------------------------------------------
(* C7 *)

\* C7: when layers_dir does not exist, the run counts no success and writes no image and
\* no metadata file.
C7_MissingDirNoSuccess ==
    ~fs.exists => (stats.success = 0 /\ images = EmptyDict /\ metadata = EmptyDict)

----------------------------------------------------------------------------
(* C8 *)

\* C8: no failure of an edition, a raising callback included, stops the run: run_generation
\* is never left by an exception, it returns after the loop has gone through every edition
\* number up to N, and a failed edition is counted as an error and as nothing else.
C8_FailureNeverStopsRun ==
    /\ pc # "raised"
    /\ pc \in {"returned", "done"} => edition_number = edition_size
    /\ \A k \in DOMAIN counted : "errors" \in counted[k] => counted[k] = {"errors"}

----------------------------------------------------------------------------
(* C9 *)

\* C9: an edition whose DNA is already in the DNA set is counted as a duplicate and as
\* nothing else (success and errors are unchanged), has no image and no metadata file,
\* and no further selection, compositing or saving is done for its edition number.
C9_DuplicateOnlyCounted ==
    \A k \in DOMAIN counted :
        "duplicates" \in counted[k] =>
            /\ counted[k] = {"duplicates"}
            /\ k \notin DOMAIN images
            /\ k \notin DOMAIN metadata
            /\ k = edition_number => pc \notin {"select", "dna", "save", "meta"}

----------------------------------------------------------------------------
(* C10 *)

\* C10: with a progress callback supplied, the k-th progress notification carries (k, N):
\* one notification per edition, in increasing order, and between two editions the number
\* of notifications is the number of editions whose outcome has been counted.
C10_OneProgressPerEdition ==
    callbacks.progress =>
        /\ \A i \in DOMAIN ProgressCalls :
             ProgressCalls[i].k = i /\ ProgressCalls[i].n = edition_size
        /\ pc \in {"loop", "returned", "done"} => Len(ProgressCalls) = edition_number

----------------------------------------------------------------------------
(* C11 *)

\* C11: when at least one weight is positive, _weighted_choice returns, for every draw
\* of [0, total], an option standing at a position of positive weight, and so never an
\* option whose weight is <= 0; weights [0, 0, 5] over three options return the third
C11_NeverNonPositive ==
    (call.fn = "weighted_choice" /\ call.returned /\ SumPositive(call.weights) > 0) =>
        /\ \E i \in DOMAIN call.options :
             call.options[i] = call.result /\ call.weights[i] > 0
        /\ NoRepeat(call.options) =>
             \A i \in DOMAIN call.options :
                call.options[i] = call.result => call.weights[i] > 0
        /\ (Len(call.options) = 3 /\ call.weights = <<0, 0, 5>>) =>
             call.result = call.options[3]

\* weights [0, 0, 5] over [Red, Blue, Green] with the draw 0
C11_Witness ==
    /\ call.fn = "weighted_choice" /\ call.returned
    /\ call.options = <<Red, Blue, Green>> /\ call.weights = <<0, 0, 5>>
    /\ call.r = 0
    /\ call.result = Green

----------------------------------------------------------------------------
(* C12 *)

\* C12: when every weight is <= 0 and the option list is not empty, _weighted_choice
\* returns a member of the option list, never none
C12_FallbackIsMember ==
    (/\ call.fn = "weighted_choice" /\ call.returned
     /\ call.options # <<>>
     /\ \A i \in DOMAIN call.weights : call.weights[i] <= 0) =>
        /\ call.result \in Range(call.options)
        /\ call.result # None

\* the fallback returns a member other than the first
C12_Witness ==
    /\ call.fn = "weighted_choice" /\ call.returned
    /\ call.options = <<Red, Blue>> /\ call.weights = <<0, -5>>
    /\ call.result = Blue

----------------------------------------------------------------------------
(* C13 *)

\* C13: when every edition of a finished run of N >= 1 editions selected the same
\* combination (one DNA in the DNA set) and no compositing, saving or metadata step
\* failed (no edition is counted as an error only), the statistics are success = 1,
\* duplicates = N - 1, errors = 0, and edition 1 alone has an image and a metadata file.
C13_SameCombination ==
    (/\ pc \in {"returned", "done"}
     /\ edition_size >= 1
     /\ Cardinality(generated_dna) <= 1
     /\ \A k \in DOMAIN counted : counted[k] # {"errors"}) =>
        /\ stats = [success |-> 1, duplicates |-> edition_size - 1, errors |-> 0]
        /\ DOMAIN images = {1}
        /\ DOMAIN metadata = {1}

----------------------------------------------------------------------------
(* C14 *)

\* the case of C14 for the include pair p: its source trait is selected on a layer, its
\* target layer comes later in final_layer_order and has a catalog, and its target trait
\* is not in that catalog
C14_Case(p) ==
    /\ WellFormed(p)
    /\ \E L \in DOMAIN selected :
         /\ Key(L, selected[L]) = p[1]
         /\ ComesLater(final_layer_order, L, SplitHead(p[2]))
    /\ SplitHead(p[2]) \in DOMAIN all_traits
    /\ SplitTail(p[2]) \notin Range(all_traits[SplitHead(p[2])])

\* C14: when an include pair whose source trait is selected requires, for a later layer,
\* a trait that is not in the layer's catalog (and no other pair of a selected source asks
\* that layer for another trait), the layer is skipped for the edition: it has no entry in
\* the selection, the DNA records it as absent and it has no attribute.
C14_UnsatisfiableInclusionSkips ==
    (SelectionDone /\ NoRepeat(final_layer_order)) =>
        \A i \in DOMAIN rules.include_pairs :
            LET p == rules.include_pairs[i]
                layer == SplitHead(p[2])
                attributes == Attributes(final_layer_order, selected)
            IN  (C14_Case(p) /\ C4_NoRival(p)) =>
                    /\ layer \notin DOMAIN selected
                    /\ Get(selected, layer, NoneSentinel) = NoneSentinel
                    /\ \A j \in DOMAIN attributes : attributes[j].trait_type # layer

----------------------------------------------------------------------------
(* C15 *)

\* the step registers a trait (lines 1124-1127)
C15_Registers == pc = "select" /\ Len(selected_keys') = Len(selected_keys) + 1

\* the positions of the include pairs through which registering key, with the selection
\* sel, sets forced[layer] (lines 1130-1138)
C15_Writes(key, sel, layer) ==
    {j \in DOMAIN rules.include_pairs :
        LET q == rules.include_pairs[j]
        IN  /\ q[1] = key
            /\ HasColon(q[2])
            /\ SplitHead(q[2]) = layer
            /\ layer \notin DOMAIN sel}

C15_Layers ==
    DOMAIN forced_selection \cup DOMAIN forced_selection'
        \cup {SplitHead(rules.include_pairs[j][2]) :
                j \in {i \in DOMAIN rules.include_pairs : HasColon(rules.include_pairs[i][2])}}

\* C15 as stated: the first value forced for a layer wins.  A value stored in
\* forced[layer] is not changed by a later registration, and a registration that stores
\* one stores the target trait of its first matching pair.
C15_FirstForcedValueWins ==
    [][C15_Registers =>
         LET key == selected_keys'[Len(selected_keys')]
         IN  \A L \in DOMAIN forced_selection' :
                LET writes == C15_Writes(key, selected', L)
                    first == CHOOSE j \in writes : \A k \in writes : j <= k
                IN  IF L \in DOMAIN forced_selection
                    THEN forced_selection'[L] = forced_selection[L]
                    ELSE /\ writes # {}
                         /\ forced_selection'[L] = SplitTail(rules.include_pairs[first][2])]_vars

\* C15 amended: the last value forced for a layer wins.  Registering a trait stores, for
\* every layer without an entry in selected that a matching pair targets, the target
\* trait of the last matching pair of the list, replacing a value stored before; the
\* other entries of forced are unchanged, and a layer visit that registers nothing
\* leaves forced unchanged.
C15_LastForcedValueWins ==
    [][pc = "select" =>
         IF C15_Registers
         THEN LET key == selected_keys'[Len(selected_keys')]
              IN  \A L \in C15_Layers :
                     LET writes == C15_Writes(key, selected', L)
                         last == CHOOSE j \in writes : \A k \in writes : j >= k
                     IN  IF writes # {}
                         THEN /\ L \in DOMAIN forced_selection'
                              /\ forced_selection'[L] =
                                    SplitTail(rules.include_pairs[last][2])
                         ELSE /\ L \in DOMAIN forced_selection' <=> L \in DOMAIN forced_selection
                              /\ L \in DOMAIN forced_selection =>
                                    forced_selection'[L] = forced_selection[L]
         ELSE forced_selection' = forced_selection]_vars

\* LayerB:Blue forced Blue on LayerC, then LayerA:Red, selected on a later layer, forced
\* __none__ on LayerC, and LayerC took the second value
C15_Witness ==
    /\ SelectionDone
    /\ final_layer_order = <<LayerB, LayerA, LayerC>>
    /\ rules.include_pairs = << <<Key(LayerB, Blue), Key(LayerC, Blue)>>,
                                <<Key(LayerA, Red), Key(LayerC, NoneSentinel)>> >>
    /\ Get(selected, LayerB, None) = Blue
    /\ Get(selected, LayerA, None) = Red
    /\ Get(forced_selection, LayerC, None) = NoneSentinel
    /\ Get(selected, LayerC, None) = NoneSentinel

----------------------------------------------------------------------------
(* C16 *)

\* the edition was composited and the image of one of its selected traits could not be
\* opened or decoded
C16_Case ==
    /\ pc = "progress"
    /\ "duplicates" \notin counted[edition_number]
    /\ \E i \in DOMAIN final_layer_order :
         LET layer == final_layer_order[i]
             trait == Get(selected, layer, None)
         IN  /\ Truthy(trait)
             /\ trait \in Get(fs.dirs, layer, {})
             /\ Key(layer, trait) \in fs.corrupt

\* C16 as stated: an image that cannot be opened or decoded for a selected trait during
\* compositing makes the edition count as an error and not as a success.
C16_LoadFailureIsError ==
    C16_Case => counted[edition_number] = {"errors"}

\* C16 amended: an image that cannot be opened or decoded for a selected trait is logged
\* and left out of the composite, and is by itself no error: the edition is counted as a
\* success, with the trait in its attributes, unless another step (compositing, saving
\* the image, writing the metadata) raises, and then it is counted as an error.
C16_LoadFailureLeftOut ==
    C16_Case =>
        /\ failure \in {"none", "composite", "save", "metadata"}
        /\ counted[edition_number] = IF failure = "none" THEN {"success"} ELSE {"errors"}
        /\ failure = "none" =>
             /\ edition_number \in DOMAIN images
             /\ edition_number \in DOMAIN metadata
             /\ metadata[edition_number].attributes =
                    Attributes(final_layer_order, selected)
             /\ callbacks.log = "ok" =>
                    \E i \in DOMAIN emitted : emitted[i] = LogMsg("error loading", 0)

\* LayerB:Green, whose image cannot be decoded, is selected; the loading error is logged
\* and the edition is counted as a success with LayerB = Green among its attributes
C16_Witness ==
    /\ C16_Case
    /\ Get(selected, LayerB, None) = Green
    /\ counted[edition_number] = {"success"}
    /\ callbacks.log = "ok"
    /\ \E i \in DOMAIN emitted : emitted[i] = LogMsg("error loading", 0)
    /\ \E j \in DOMAIN metadata[edition_number].attributes :
         metadata[edition_number].attributes[j] = [trait_type |-> LayerB, value |-> Green]

----------------------------------------------------------------------------
(* C17 *)

\* C17: for every accepted edition (of a final_layer_order that lists no layer twice),
\* the attribute list written to the metadata has exactly one entry
\* {trait_type: layer, value: trait} for each layer with an entry in the selection, no
\* entry for any other layer, and its entries are in final_layer_order, for every trait
\* name the selection can contain.
C17_AttributesMirrorSelection ==
    (JustAccepted /\ NoRepeat(final_layer_order)) =>
        LET attributes == metadata[edition_number].attributes
            Position(L) == CHOOSE i \in DOMAIN final_layer_order : final_layer_order[i] = L
        IN  /\ \A L \in DOMAIN selected :
                 /\ Cardinality({j \in DOMAIN attributes : attributes[j].trait_type = L}) = 1
                 /\ \E j \in DOMAIN attributes :
                      attributes[j] = [trait_type |-> L, value |-> selected[L]]
            /\ \A j \in DOMAIN attributes : attributes[j].trait_type \in DOMAIN selected
            /\ \A j, k \in DOMAIN attributes :
                 j < k => Position(attributes[j].trait_type) < Position(attributes[k].trait_type)

----------------------------------------------------------------------------
(* C18 *)

\* the layers a DNA names: the text at the start of each of its parts
C18_DnaLayers(d) == {<<d[i]>> : i \in {j \in DOMAIN d : j = 1 \/ d[j - 1] = "|"}}

\* a layer that is in the catalog and is not excluded
C18_Kept(L) == L \in DOMAIN all_traits /\ L \notin config.excluded_layers

\* C18: final_layer_order is the subsequence of config layer_order (of the sorted catalog
\* layer names when layer_order is empty) made of the layers that are in the catalog and
\* not in excluded_layers, in their original relative order; no excluded layer and no
\* layer without traits is selected, put in a DNA or listed in attributes, even when an
\* include pair targets it.
C18_FinalLayerOrder ==
    pc # "start" =>
        LET base == IF config.layer_order = <<>> THEN Sorted(DOMAIN all_traits)
                    ELSE config.layer_order
            keep == {i \in DOMAIN base : C18_Kept(base[i])}
        IN  /\ Len(final_layer_order) = Cardinality(keep)
            /\ \A i \in keep :
                 final_layer_order[Cardinality({j \in keep : j <= i})] = base[i]
            /\ \A L \in DOMAIN selected : C18_Kept(L)
            /\ \A d \in generated_dna \cup {dna} : \A L \in C18_DnaLayers(d) : C18_Kept(L)
            /\ \A k \in DOMAIN metadata :
                 \A j \in DOMAIN metadata[k].attributes :
                    C18_Kept(metadata[k].attributes[j].trait_type)

\* layer_order [A, D, B, C] with B excluded and D without traits gives [A, C]; the
\* include pair LayerA:Red => LayerB:Blue has put B in the forced map, and the accepted
\* edition has neither B nor D in its selection, DNA and attributes
C18_Witness ==
    /\ JustAccepted
    /\ config.layer_order = <<LayerA, LayerD, LayerB, LayerC>>
    /\ config.excluded_layers = {LayerB}
    /\ final_layer_order = <<LayerA, LayerC>>
    /\ Get(selected, LayerA, None) = Red
    /\ Get(forced_selection, LayerB, None) = Blue
    /\ DOMAIN selected = {LayerA, LayerC}
    /\ C18_DnaLayers(dna) = {LayerA, LayerC}
    /\ Len(metadata[edition_number].attributes) >= 1

----------------------------------------------------------------------------
(* C19 *)

\* the include pair q, in a final_layer_order that lists no layer twice: its source trait
\* is selected in sel on a layer, and its target layer stands in final_layer_order at the
\* same position as that layer or before it
C19_Case(q, sel) ==
    /\ HasColon(q[2])
    /\ NoRepeat(final_layer_order)
    /\ \E S \in DOMAIN sel :
         /\ Key(S, sel[S]) = q[1]
         /\ \E i, j \in DOMAIN final_layer_order :
              /\ final_layer_order[i] = SplitHead(q[2])
              /\ final_layer_order[j] = S
              /\ i <= j

----------------------------------------------------------------------------
(* C20 *)

\* the positions of the listed names that have a stored mapping set
C20_Present(names) == {i \in DOMAIN names : names[i] \in DOMAIN SavedMappings}

\* the merged rarities of a field: every key a present set defines, with the value of
\* the last listed set that defines it
C20_LastWins(merged, names, field) ==
    LET Defines(i, key) == key \in DOMAIN SavedMappings[names[i]][field]
    IN  /\ DOMAIN merged =
             UNION {DOMAIN SavedMappings[names[i]][field] : i \in C20_Present(names)}
        /\ \A key \in DOMAIN merged :
             LET last == CHOOSE i \in C20_Present(names) :
                            /\ Defines(i, key)
                            /\ \A j \in C20_Present(names) : Defines(j, key) => j <= i
             IN  merged[key] = SavedMappings[names[last]][field][key]

RECURSIVE C20_Offset(_, _, _)
\* the number of pairs of the present sets listed before position i
C20_Offset(names, i, field) ==
    IF i <= 1 THEN 0
    ELSE C20_Offset(names, i - 1, field)
            + (IF i - 1 \in C20_Present(names)
               THEN Len(SavedMappings[names[i - 1]][field]) ELSE 0)

\* the merged pairs of a field: the pairs of the present sets, set after set in list
\* order, each set's pairs in its own order, nothing left out and nothing added
C20_Concatenated(merged, names, field) ==
    /\ Len(merged) = C20_Offset(names, Len(names) + 1, field)
    /\ \A i \in C20_Present(names) :
         \A k \in DOMAIN SavedMappings[names[i]][field] :
            merged[C20_Offset(names, i, field) + k] = SavedMappings[names[i]][field][k]

\* C20: _merge_mapping_sets takes the names of config["mapping_sets"] in list order; a
\* name without a stored mapping set gives a warning and changes nothing (the result is
\* the one of the list without it); each trait or layer rarity key has the value of the
\* last listed set that defines it; include_pairs and exclude_pairs are the concatenation,
\* in list order, of the present sets' pairs, repeated pairs kept.
C20_MergeInListOrder ==
    (call.fn = "merge_mapping_sets" /\ call.returned) =>
        LET names == config.mapping_sets
            stored == SelectSeq(names, LAMBDA n : n \in DOMAIN SavedMappings)
        IN  /\ C20_LastWins(call.result.trait_rarities, names, "rarities")
            /\ C20_LastWins(call.result.layer_rarities, names, "layer_rarities")
            /\ C20_Concatenated(call.result.include_pairs, names, "include_pairs")
            /\ C20_Concatenated(call.result.exclude_pairs, names, "exclude_pairs")
            /\ call.result = MergeMappingSets([mapping_sets |-> stored], SavedMappings)
            /\ callbacks.log = "ok" =>
                 /\ Len(emitted) = Len(names) - Len(stored)
                 /\ \A i \in DOMAIN emitted : emitted[i] = LogMsg("mapping set not found", 0)

\* "rare", a name that is not stored, "half": one warning, and LayerA:Green and LayerB
\* have the rarities of "half", listed last
C20_Witness ==
    /\ call.fn = "merge_mapping_sets" /\ call.returned
    /\ config.mapping_sets = <<"rare", "ghost", "half">>
    /\ callbacks.log = "ok"
    /\ emitted = <<LogMsg("mapping set not found", 0)>>
    /\ call.result.trait_rarities[Key(LayerA, Green)] = 50
    /\ call.result.layer_rarities[LayerB] = 50

----------------------------------------------------------------------------
(* C21 *)

\* C21: in every edition, each trait recorded in the selection for a layer is a member
\* of that layer's catalog trait list, whatever include pairs are present.
C21_SelectedInCatalog ==
    \A L \in DOMAIN selected : selected[L] \in Range(Get(all_traits, L, <<>>))

----------------------------------------------------------------------------
(* C22 *)

\* C22: an edition counted as a duplicate has the DNA of an earlier edition of the run
\* that was counted as a success, and between two editions the run's DNA set holds only
\* DNAs of editions counted as a success, never the DNA of an edition that ended as
\* an error.
C22_DuplicateOfASuccess ==
    /\ (edition_number >= 1 /\ "duplicates" \in counted[edition_number]) =>
          \E j \in DOMAIN accepted_dna : j < edition_number /\ accepted_dna[j] = dna
    /\ pc \in {"loop", "returned", "done"} =>
          \A d \in generated_dna : \E j \in DOMAIN accepted_dna : accepted_dna[j] = d

----------------------------------------------------------------------------
(* C23 *)

\* C23: after a run into an empty output directory, for every edition number k, image
\* file k exists if and only if metadata file k exists, if and only if edition k was
\* counted as a success; the number of image files, the number of metadata files and
\* stats.success are equal.
C23_FilesMatchSuccess ==
    pc \in {"returned", "done"} =>
        /\ \A k \in 1..edition_size :
             /\ k \in DOMAIN images <=> k \in DOMAIN metadata
             /\ k \in DOMAIN images <=> "success" \in counted[k]
        /\ Cardinality(DOMAIN images) = stats.success
        /\ Cardinality(DOMAIN metadata) = stats.success

----------------------------------------------------------------------------
(* C24 *)

\* C24: two editions of one run have equal DNA strings if and only if their selections
\* are equal (the same present layers with the same trait on each), for every catalog of
\* trait names, a trait named __none__ and names holding ':' or '|' included.
C24_DnaIdentifiesSelection ==
    (call.fn = "dna" /\ call.returned) =>
        (call.result[1] = call.result[2] <=> call.first = call.second)

----------------------------------------------------------------------------
(* C25 *)

C25_Dones == { i \in DOMAIN emitted : emitted[i].type = "done" }

C25_DoneIsLast ==
    /\ Cardinality(C25_Dones) <= 1
    /\ (pc = "done") <=> (C25_Dones # {})
    /\ \A i \in C25_Dones :
         /\ i = Len(emitted)
         /\ emitted[i].stats = stats
         /\ \E j \in 1..(i - 1) :
              /\ emitted[j].type = "progress"
              /\ emitted[j].k = edition_size /\ emitted[j].n = edition_size
         /\ \A j \in DOMAIN emitted : emitted[j].type \in {"log", "progress"} => j < i

\* C25: for one GenerationWorker run of N editions, the done notification carrying the
\* stats is emitted exactly once: the run reaches it, it comes after the progress
\* notification (N, N) and after every log message of the run, and no progress or log
\* notification is emitted after it.
C25_DoneExactlyOnce ==
    /\ [](callbacks.signals => C25_DoneIsLast)
    /\ (callbacks.signals ~> pc = "done")

\* a worker run of several editions, one of them a duplicate, has emitted log messages,
\* progress notifications and then the done notification
C25_Witness ==
    /\ callbacks.signals
    /\ pc = "done"
    /\ edition_size >= 2
    /\ stats.duplicates >= 1
    /\ \E j \in DOMAIN emitted : emitted[j].type = "log"
    /\ emitted[Len(emitted)] = DoneMsg(stats)

====
